---- MODULE Spec2Model ----
(***************************************************************************)
(* State-machine model of lcp::CryptoppCryptoProvider                      *)
(* (src/src/LcpCryptoLib/CryptoppCryptoProvider.cpp).                      *)
(*                                                                         *)
(* The provider owns a CertificateRevocationList, a ThreadTimer and a      *)
(* CrlUpdater.  Their classes are not part of the sources at hand; they    *)
(* are modelled from the specification (sections 4.3 - 4.5) and kept in    *)
(* operators of their own (ContainsAnyUrl, CrlUpdate, ThreadTimerStart...).*)
(***************************************************************************)
EXTENDS Integers, Sequences, FiniteSets, TLC

\* Timestamps are 1..MaxTime.
MaxTime == 3

\* Streams hold up to MaxChunks whole buffers, and a remainder.
MaxChunks == 3

\* The largest number of LcpService objects constructed in a behaviour.
MaxServices == 4

Times == 1..MaxTime

\* CRL distribution points that occur in the certificates below.
Urls == {"u1", "u2"}

\* StatusCode values returned by the provider, plus "Exception": the call
\* ended with an exception that VerifyLicense does not catch.
Success == "Success"
EncryptionProfileNotFound == "EncryptionProfileNotFound"
NoRootCertificate == "NoRootCertificate"
RootCertificateNotValid == "RootCertificateNotValid"
ContentProviderCertificateNotValid == "ContentProviderCertificateNotValid"
ContentProviderCertificateNotVerified == "ContentProviderCertificateNotVerified"
CertificateRevoked == "ContentProviderCertificateRevoked"
LicenseSignatureNotValid == "LicenseSignatureNotValid"
CertificateNotStarted == "ContentProviderCertificateNotStarted"
CertificateExpired == "ContentProviderCertificateExpired"
UserPassphraseNotValid == "UserPassphraseNotValid"
LicenseEncrypted == "LicenseEncrypted"
EscapedException == "Exception"

\* What CrlUpdater::Update can end with: normally, with a CryptoPP::Exception
\* (a CRL that does not parse), or with any other exception (the network).
UpdateOutcomes == {"ok", "cryptopp", "other"}

\* The certificates that the base64 strings of the model decode to.
\* "R" is the root; "A", "B", "N", "I" are issued by it; "U" by somebody else.
\* I carries an inverted validity window (notBefore after notAfter), which no
\* step of the parse rejects.
CertTable ==
    [R |-> [subject |-> "R", serial |-> 9, issuer |-> "R", dps |-> {}, notBefore |-> 1, notAfter |-> 3],
     A |-> [subject |-> "A", serial |-> 1, issuer |-> "R", dps |-> {"u1"}, notBefore |-> 2, notAfter |-> 3],
     B |-> [subject |-> "B", serial |-> 2, issuer |-> "R", dps |-> {"u2"}, notBefore |-> 2, notAfter |-> 2],
     N |-> [subject |-> "N", serial |-> 3, issuer |-> "R", dps |-> {}, notBefore |-> 1, notAfter |-> 3],
     I |-> [subject |-> "I", serial |-> 5, issuer |-> "R", dps |-> {}, notBefore |-> 3, notAfter |-> 1],
     U |-> [subject |-> "U", serial |-> 4, issuer |-> "X", dps |-> {"u1"}, notBefore |-> 1, notAfter |-> 3]]

ProviderCertNames == {"A", "B", "N", "I"}

\* Serials a CRL served at url can list: those of the certificates that name
\* url as a distribution point.
SerialsAt(url) == {CertTable[n].serial : n \in {m \in ProviderCertNames : url \in CertTable[m].dps}}

VARIABLES
    crlUrls,            \* CrlUpdater: the distribution points merged so far
    revocationList,     \* CertificateRevocationList: url -> serials merged from it
    timerState,         \* ThreadTimer: "Idle", "Running", "Cancelled"
    handlerInFlight,    \* ThreadTimer: the handler (CrlUpdater::Update) is running
    capturedException,  \* ThreadTimer: "none", or the handler's captured exception
    cancelled,          \* CrlUpdater: Cancel() was called
    dtor,               \* ~CryptoppCryptoProvider: "alive", "cancelled", "stopping", "destroyed"
    dtorTrace,          \* the calls the destructor has made, in order
    crlServed,          \* environment: url -> serials in the CRL served there
    fetched,            \* observation: urls whose CRL a completed Update has merged
    refresh,            \* observation: "stale" | "refreshing" | "fresh" since the last CRL change
    lastCall,           \* observation: the public call made in the last step, its
                        \* inputs and its outcome; NoCall once the caller took it
    userKey,            \* the caller's KeyType & userKey of DecryptUserKey
    contentKey,         \* the caller's KeyType & contentKey of DecryptContentKey
    hpc,                \* CalculateFileHash: "idle", "loop" (at line 213), "done"
    fileSize,           \* CalculateFileHash: fileSize
    read,               \* CalculateFileHash: read
    cursor,             \* the stream's read position
    reads,              \* observation: the sizes CalculateFileHash asked Read for
    hashed,             \* Sha256HashAlgorithm: the bytes it was fed, as stream ranges
    rawHash,            \* the caller's std::vector<unsigned char> & rawHash
    lcpService,         \* the caller's ILcpService * that CreateLcpService is given
    services,           \* the number of LcpService objects constructed so far
    tpc,                \* concurrent callers: thread -> the line of VerifyLicense it is at
    tlocal,             \* concurrent callers: thread -> its certificate, its
                        \* containedAnyUrlBefore and the status it returns
    syncUpdates,        \* observation: calls of Update() made by caller threads
    timerStarts         \* observation: calls of m_threadTimer->Start()

vars == <<crlUrls, revocationList, timerState, handlerInFlight, capturedException,
          cancelled, dtor, dtorTrace, crlServed, fetched, refresh, lastCall,
          userKey, contentKey, hpc, fileSize, read, cursor, reads, hashed, rawHash,
          lcpService, services, tpc, tlocal, syncUpdates, timerStarts>>

providerVars == <<crlUrls, revocationList, timerState, handlerInFlight, capturedException,
                  cancelled, dtor, dtorTrace, crlServed, fetched, refresh>>

keyVars == <<userKey, contentKey>>

hashVars == <<hpc, fileSize, read, cursor, reads, hashed, rawHash>>

createVars == <<lcpService, services>>

concVars == <<tpc, tlocal, syncUpdates, timerStarts>>

NoCall == [op |-> "none"]

----------------------------------------------------------------------------
(* Collaborators, modelled from the specification *)

\* CrlUpdater::ContainsAnyUrl
ContainsAnyUrl(urls) == urls # {}

\* CrlUpdater::UpdateCrlDistributionPoints: merge, deduplicated
UpdateCrlDistributionPoints(urls, dps) == urls \cup dps

\* CrlUpdater::Update, ending with outcome: every known url's slice of the
\* list is replaced by the CRL served there (each CRL served is taken to be
\* newer than the one merged before); an Update that throws merges nothing.
CrlUpdate(urls, list, served, outcome) ==
    IF outcome = "ok"
    THEN [u \in Urls |-> IF u \in urls THEN served[u] ELSE list[u]]
    ELSE list

\* CertificateRevocationList::SerialNumberRevoked
SerialNumberRevoked(list, serial) == \E u \in Urls : serial \in list[u]

\* Certificate::Certificate(base64, profile): BERDecodeErr on anything that
\* is not a certificate.
IsCertificate(str) == str \in DOMAIN CertTable

Certificate(str) == CertTable[str]

\* Certificate::VerifyCertificate(rootCertificate)
VerifyCertificate(cert, rootCert) == cert.issuer = rootCert.subject

\* Certificate::VerifyMessage(canonicalContent, signature): the signature
\* was made by this certificate's key over exactly these bytes.
VerifyMessage(cert, content, signature) ==
    signature.signer = cert.serial /\ signature.over = content

\* EncryptionProfilesManager::GetProfile: nullptr for an unknown profile
KnownProfiles == {"basic"}

GetProfile(name) == name \in KnownProfiles

\* DateTime(string): a date string is <<>> (the empty string) or <<t>>.
DateTime(str) == str[1]

\* ThreadTimer::Start
ThreadTimerStart(state) == IF state = "Idle" THEN "Running" ELSE state

\* ThreadTimer::Stop: no handler run begins afterwards
ThreadTimerStop(state) == "Cancelled"

----------------------------------------------------------------------------
(* CryptoppCryptoProvider::ProcessRevokation *)

\* ProcessRevokation without the RethrowExceptionIfAny() of line 358
ProcessRevokationNoRethrow(cert, fetch) ==
    LET containedAnyUrlBefore == ContainsAnyUrl(crlUrls)
        urls == UpdateCrlDistributionPoints(crlUrls, cert.dps)
        firstTime == ~containedAnyUrlBefore /\ ContainsAnyUrl(urls)
        updateThrew == firstTime /\ fetch # "ok"
        list == IF firstTime
                THEN CrlUpdate(urls, revocationList, crlServed, fetch)
                ELSE revocationList
        started == firstTime /\ ~updateThrew
        thrown == IF updateThrew THEN fetch ELSE "none"
    IN  [urls |-> urls,
         list |-> list,
         timer |-> IF started THEN ThreadTimerStart(timerState) ELSE timerState,
         captured |-> capturedException,
         thrown |-> thrown,
         status |-> IF SerialNumberRevoked(list, cert.serial)
                    THEN CertificateRevoked ELSE Success,
         merged |-> IF firstTime /\ ~updateThrew THEN urls ELSE {},
         trace |-> <<"ContainsAnyUrl", "UpdateCrlDistributionPoints">>
                   \o (IF containedAnyUrlBefore THEN <<>> ELSE <<"ContainsAnyUrl">>)
                   \o (IF firstTime THEN <<"Update">> ELSE <<>>)
                   \o (IF started THEN <<"Start">> ELSE <<>>)
                   \o (IF thrown = "none" THEN <<"SerialNumberRevoked">> ELSE <<>>)]

\* The effect of ProcessRevokation(providerCertificate) on the provider, and
\* how it ends: "thrown" names the exception that leaves it ("none": it
\* returned status).  fetch is how the synchronous Update of this call ends,
\* should it run.
ProcessRevokation(cert, fetch) ==
    LET containedAnyUrlBefore == ContainsAnyUrl(crlUrls)
        urls == UpdateCrlDistributionPoints(crlUrls, cert.dps)
        firstTime == ~containedAnyUrlBefore /\ ContainsAnyUrl(urls)
        updateThrew == firstTime /\ fetch # "ok"
        list == IF firstTime
                THEN CrlUpdate(urls, revocationList, crlServed, fetch)
                ELSE revocationList
        started == firstTime /\ ~updateThrew
        thrown == IF updateThrew THEN fetch ELSE capturedException
    IN  [urls |-> urls,
         list |-> list,
         timer |-> IF started THEN ThreadTimerStart(timerState) ELSE timerState,
         captured |-> IF updateThrew THEN capturedException ELSE "none",
         thrown |-> thrown,
         status |-> IF SerialNumberRevoked(list, cert.serial)
                    THEN CertificateRevoked ELSE Success,
         merged |-> IF firstTime /\ ~updateThrew THEN urls ELSE {},
         trace |-> <<"ContainsAnyUrl", "UpdateCrlDistributionPoints">>
                   \o (IF containedAnyUrlBefore THEN <<>> ELSE <<"ContainsAnyUrl">>)
                   \o (IF firstTime THEN <<"Update">> ELSE <<>>)
                   \o (IF started THEN <<"Start">> ELSE <<>>)
                   \o (IF updateThrew THEN <<>> ELSE <<"RethrowExceptionIfAny">>)
                   \o (IF thrown = "none" THEN <<"SerialNumberRevoked">> ELSE <<>>)]

----------------------------------------------------------------------------
(* CryptoppCryptoProvider::VerifyLicense *)

\* A license: its Crypto()->EncryptionProfile(), SignatureCertificate() and
\* Signature(), its CanonicalContent(), Updated() and Issued().
License(profile, certificate, over, updated, issued) ==
    [profile |-> profile,
     certificate |-> certificate,
     signature |-> [signer |-> IF IsCertificate(certificate)
                               THEN Certificate(certificate).serial ELSE 0,
                    over |-> over],
     canonicalContent |-> "doc",
     updated |-> updated,
     issued |-> issued]

\* lines 115-123: Updated() when it is not empty, Issued() otherwise
LastUpdated(license) ==
    IF Len(license.updated) # 0
    THEN DateTime(license.updated)
    ELSE DateTime(license.issued)

\* ValidityStatus with the two ends of the window taken as outside it
ValidityStatusExclusive(lastUpdated, notBefore, notAfter) ==
    IF lastUpdated <= notBefore THEN CertificateNotStarted
    ELSE IF lastUpdated >= notAfter THEN CertificateExpired
    ELSE Success

\* lines 125-133
ValidityStatus(lastUpdated, notBefore, notAfter) ==
    IF lastUpdated < notBefore THEN CertificateNotStarted
    ELSE IF lastUpdated > notAfter THEN CertificateExpired
    ELSE Success

\* EarlyStatus without the chain verification of lines 96-99
EarlyStatusNoChainCheck(root, license) ==
    IF ~GetProfile(license.profile) THEN EncryptionProfileNotFound
    ELSE IF root = "" THEN NoRootCertificate
    ELSE IF ~IsCertificate(root) THEN RootCertificateNotValid
    ELSE IF ~IsCertificate(license.certificate) THEN ContentProviderCertificateNotValid
    ELSE "none"

\* lines 65-99: the status VerifyLicense returns before it reaches
\* ProcessRevokation, "none" when it reaches it
EarlyStatus(root, license) ==
    IF ~GetProfile(license.profile) THEN EncryptionProfileNotFound
    ELSE IF root = "" THEN NoRootCertificate
    ELSE IF ~IsCertificate(root) THEN RootCertificateNotValid
    ELSE IF ~IsCertificate(license.certificate) THEN ContentProviderCertificateNotValid
    ELSE IF ~VerifyCertificate(Certificate(license.certificate), Certificate(root))
         THEN ContentProviderCertificateNotVerified
    ELSE "none"

\* lines 107-133: the status after ProcessRevokation returned Success
LateStatus(license, cert) ==
    IF ~VerifyMessage(cert, license.canonicalContent, license.signature)
    THEN LicenseSignatureNotValid
    ELSE ValidityStatus(LastUpdated(license), cert.notBefore, cert.notAfter)

\* lines 101-105 and the catch of lines 135-138: a CryptoPP::Exception that
\* leaves ProcessRevokation becomes ContentProviderCertificateNotVerified,
\* any other exception leaves VerifyLicense
RevocationStatus(pr, license, cert) ==
    IF pr.thrown = "cryptopp" THEN ContentProviderCertificateNotVerified
    ELSE IF pr.thrown # "none" THEN EscapedException
    ELSE IF pr.status # Success THEN pr.status
    ELSE LateStatus(license, cert)

\* The CRL served at one of cert's distribution points lists its serial.
Listed(cert) == \E u \in cert.dps : cert.serial \in crlServed[u]

VerifyLicense(root, license, fetch) ==
    /\ dtor = "alive"
    /\ lastCall = NoCall
    /\ LET early == EarlyStatus(root, license) IN
       IF early # "none"
       THEN /\ lastCall' = [op |-> "VerifyLicense", root |-> root, license |-> license,
                            status |-> early, trace |-> <<>>,
                            urlsBefore |-> crlUrls, urlsAfter |-> crlUrls,
                            capturedBefore |-> capturedException,
                            inList |-> FALSE, listed |-> FALSE,
                            refreshAtCall |-> refresh, fetchedAtLookup |-> {}]
            /\ UNCHANGED <<crlUrls, revocationList, timerState, capturedException, fetched>>
       ELSE LET cert == Certificate(license.certificate)
                pr == ProcessRevokation(cert, fetch)
            IN  /\ crlUrls' = pr.urls
                /\ revocationList' = pr.list
                /\ timerState' = pr.timer
                /\ capturedException' = pr.captured
                /\ fetched' = fetched \cup pr.merged
                /\ lastCall' = [op |-> "VerifyLicense", root |-> root, license |-> license,
                                status |-> RevocationStatus(pr, license, cert),
                                trace |-> pr.trace,
                                urlsBefore |-> crlUrls, urlsAfter |-> pr.urls,
                                capturedBefore |-> capturedException,
                                inList |-> SerialNumberRevoked(pr.list, cert.serial),
                                listed |-> Listed(cert),
                                refreshAtCall |-> refresh,
                                fetchedAtLookup |-> fetched \cup pr.merged]
    /\ UNCHANGED <<handlerInFlight, cancelled, dtor, dtorTrace, crlServed, refresh>>
    /\ UNCHANGED <<keyVars, hashVars, createVars, concVars>>

----------------------------------------------------------------------------
(* The timer thread, the CRL servers and the destructor *)

\* ThreadTimer: the period elapsed, the handler starts
TimerFire ==
    /\ timerState = "Running"
    /\ ~handlerInFlight
    /\ handlerInFlight' = TRUE
    /\ refresh' = IF refresh = "stale" THEN "refreshing" ELSE refresh
    /\ UNCHANGED <<crlUrls, revocationList, timerState, capturedException, cancelled,
                   dtor, dtorTrace, crlServed, fetched>>
    /\ lastCall' = NoCall
    /\ UNCHANGED <<keyVars, hashVars, createVars, concVars>>

\* ThreadTimer: the handler, CrlUpdater::Update, ends; what it throws is
\* captured.  A cancelled updater does no work.
TimerHandlerDone(outcome) ==
    /\ handlerInFlight
    /\ handlerInFlight' = FALSE
    /\ IF cancelled
       THEN UNCHANGED <<revocationList, capturedException, fetched, refresh>>
       ELSE /\ revocationList' = CrlUpdate(crlUrls, revocationList, crlServed, outcome)
            /\ capturedException' = IF outcome = "ok" THEN capturedException ELSE outcome
            /\ fetched' = IF outcome = "ok" THEN fetched \cup crlUrls ELSE fetched
            /\ refresh' = IF refresh # "refreshing" THEN refresh
                          ELSE IF outcome = "ok" THEN "fresh" ELSE "stale"
    /\ UNCHANGED <<crlUrls, timerState, cancelled, dtor, dtorTrace, crlServed>>
    /\ lastCall' = NoCall
    /\ UNCHANGED <<keyVars, hashVars, createVars, concVars>>

\* A certificate authority revokes serial in the CRL it serves at url.
PublishCrl(url, serial) ==
    /\ serial \notin crlServed[url]
    /\ crlServed' = [crlServed EXCEPT ![url] = @ \cup {serial}]
    /\ refresh' = "stale"
    /\ UNCHANGED <<crlUrls, revocationList, timerState, handlerInFlight, capturedException,
                   cancelled, dtor, dtorTrace, fetched>>
    /\ lastCall' = NoCall
    /\ UNCHANGED <<keyVars, hashVars, createVars, concVars>>

\* line 54: m_crlUpdater->Cancel()
DtorCancel ==
    /\ dtor = "alive"
    /\ dtor' = "cancelled"
    /\ cancelled' = TRUE
    /\ dtorTrace' = Append(dtorTrace, "Cancel")
    /\ UNCHANGED <<crlUrls, revocationList, timerState, handlerInFlight, capturedException,
                   crlServed, fetched, refresh>>
    /\ lastCall' = NoCall
    /\ UNCHANGED <<keyVars, hashVars, createVars, concVars>>

\* A destructor that ends after Cancel() and leaves the timer alone
DtorStopOmitted ==
    /\ dtor = "cancelled"
    /\ dtor' = "stopping"
    /\ dtorTrace' = Append(dtorTrace, "Stop")
    /\ UNCHANGED <<crlUrls, revocationList, timerState, handlerInFlight, capturedException,
                   cancelled, crlServed, fetched, refresh>>
    /\ lastCall' = NoCall
    /\ UNCHANGED <<keyVars, hashVars, createVars, concVars>>

\* line 55: m_threadTimer->Stop() is called
DtorStop ==
    /\ dtor = "cancelled"
    /\ dtor' = "stopping"
    /\ timerState' = ThreadTimerStop(timerState)
    /\ dtorTrace' = Append(dtorTrace, "Stop")
    /\ UNCHANGED <<crlUrls, revocationList, handlerInFlight, capturedException, cancelled,
                   crlServed, fetched, refresh>>
    /\ lastCall' = NoCall
    /\ UNCHANGED <<keyVars, hashVars, createVars, concVars>>

\* ThreadTimer::Stop returns, once no handler is in flight; the destructor ends
DtorJoin ==
    /\ dtor = "stopping"
    /\ ~handlerInFlight
    /\ dtor' = "destroyed"
    /\ UNCHANGED <<crlUrls, revocationList, timerState, handlerInFlight, capturedException,
                   cancelled, dtorTrace, crlServed, fetched, refresh>>
    /\ lastCall' = NoCall
    /\ UNCHANGED <<keyVars, hashVars, createVars, concVars>>

\* The caller takes the status of its call; it makes its calls one after
\* the other.
TakeResult ==
    /\ lastCall # NoCall
    /\ lastCall' = NoCall
    /\ UNCHANGED <<providerVars, keyVars, hashVars, createVars, concVars>>

----------------------------------------------------------------------------
(* CryptoppCryptoProvider::DecryptUserKey and DecryptContentKey *)

\* IHashAlgorithm of CreateUserKeyAlgorithm: UpdateHash(passphrase), Hash().
\* Different passphrases give different keys.
UserKeyHash(passphrase) ==
    CASE passphrase = "hunter2" -> "k1"
      [] passphrase = "wrong" -> "k2"
      [] OTHER -> "k3"

Passphrases == {"hunter2", "wrong", ""}

Keys == {UserKeyHash(p) : p \in Passphrases}

\* What a decryption gives: the bytes of a license id, of a content key, or
\* other bytes; "CipherError" stands for the CryptoPP::Exception of a
\* decryption that does not complete (padding, base64, length).
Plaintexts == {"urn:uuid:123", "ck", "junk"}

CipherError == "CipherError"

\* A ciphertext is what it decrypts to under each key.
Ciphertexts == [Keys -> Plaintexts \cup {CipherError}]

\* ISymmetricAlgorithm of CreateContentKeyAlgorithm(key): Decrypt(ciphertext)
Decrypt(key, ciphertext) == ciphertext[key]

\* EqualsUtf8
EqualsUtf8(left, right) == left = right

\* lines 159-170 with the status of every cipher failure changed
CheckStatusDistinguishing(license, key) ==
    LET id == Decrypt(key, license.userKeyCheck) IN
    IF id = CipherError THEN LicenseEncrypted
    ELSE IF ~EqualsUtf8(id, license.id) THEN UserPassphraseNotValid
    ELSE Success

\* lines 159-170: the status of the check of the user key
CheckStatus(license, key) ==
    LET id == Decrypt(key, license.userKeyCheck) IN
    IF id = CipherError THEN UserPassphraseNotValid
    ELSE IF ~EqualsUtf8(id, license.id) THEN UserPassphraseNotValid
    ELSE Success

\* DecryptUserKey with the output written after the check, on Success only
DecryptUserKeyOnSuccess(userPassphrase, license) ==
    /\ lastCall = NoCall
    /\ dtor = "alive"
    /\ LET status == IF ~GetProfile(license.profile)
                     THEN EncryptionProfileNotFound
                     ELSE CheckStatus(license, UserKeyHash(userPassphrase))
       IN  /\ userKey' = IF status = Success THEN UserKeyHash(userPassphrase) ELSE userKey
           /\ lastCall' = [op |-> "DecryptUserKey", passphrase |-> userPassphrase,
                           license |-> license, userKeyBefore |-> userKey,
                           status |-> status]
    /\ UNCHANGED <<providerVars, contentKey, hashVars, createVars, concVars>>

DecryptUserKey(userPassphrase, license) ==
    /\ lastCall = NoCall
    /\ dtor = "alive"
    /\ IF ~GetProfile(license.profile)
       THEN /\ userKey' = userKey
            /\ lastCall' = [op |-> "DecryptUserKey", passphrase |-> userPassphrase,
                            license |-> license, userKeyBefore |-> userKey,
                            status |-> EncryptionProfileNotFound]
       ELSE /\ userKey' = UserKeyHash(userPassphrase)
            /\ lastCall' = [op |-> "DecryptUserKey", passphrase |-> userPassphrase,
                            license |-> license, userKeyBefore |-> userKey,
                            status |-> CheckStatus(license, UserKeyHash(userPassphrase))]
    /\ UNCHANGED <<providerVars, contentKey, hashVars, createVars, concVars>>

\* lines 187-196 with the output assigned whatever the decryption gave
ContentKeyResultEager(key, license, before) ==
    LET decryptedContentKey == Decrypt(key, license.contentKey) IN
    IF decryptedContentKey = CipherError
    THEN [status |-> LicenseEncrypted, contentKey |-> "unset"]
    ELSE [status |-> Success, contentKey |-> decryptedContentKey]

\* lines 187-196: the status, and the caller's contentKey after the call
ContentKeyResult(key, license, before) ==
    LET decryptedContentKey == Decrypt(key, license.contentKey) IN
    IF decryptedContentKey = CipherError
    THEN [status |-> LicenseEncrypted, contentKey |-> before]
    ELSE [status |-> Success, contentKey |-> decryptedContentKey]

DecryptContentKey(key, license) ==
    /\ lastCall = NoCall
    /\ dtor = "alive"
    /\ LET r == IF ~GetProfile(license.profile)
                THEN [status |-> EncryptionProfileNotFound, contentKey |-> contentKey]
                ELSE ContentKeyResult(key, license, contentKey)
       IN  /\ contentKey' = r.contentKey
           /\ lastCall' = [op |-> "DecryptContentKey", key |-> key, license |-> license,
                           contentKeyBefore |-> contentKey, status |-> r.status]
    /\ UNCHANGED <<providerVars, userKey, hashVars, createVars, concVars>>

----------------------------------------------------------------------------
(* CryptoppCryptoProvider::CalculateFileHash *)

\* line 207
bufferSize == 1024 * 1024

\* Sha256HashAlgorithm::UpdateHash(buffer, n), the buffer holding the stream's
\* bytes [from, from + n): feeding a range that continues the last one is
\* feeding the two as one.
UpdateHash(data, from, n) ==
    IF n = 0 THEN data
    ELSE IF data # <<>> /\ data[Len(data)][2] = from
         THEN [data EXCEPT ![Len(data)] = <<@[1], from + n>>]
         ELSE Append(data, <<from, from + n>>)

\* Sha256HashAlgorithm::Hash: the digest of the bytes fed
Sha256(data) == <<"sha256", data>>

\* line 215 with the last, partial chunk forgotten
SizeToReadWholeBuffer(size, done) == bufferSize

\* line 215
SizeToRead(size, done) == IF size - done > bufferSize THEN bufferSize ELSE size - done

\* lines 206-212: a call on a stream of size bytes
HashBegin(size) ==
    /\ hpc = "idle"
    /\ lastCall = NoCall
    /\ dtor = "alive"
    /\ hpc' = "loop"
    /\ fileSize' = size
    /\ read' = 0
    /\ cursor' = 0
    /\ reads' = <<>>
    /\ hashed' = <<>>
    /\ UNCHANGED <<providerVars, lastCall, keyVars, createVars, concVars, rawHash>>

\* lines 213-219: one turn of the loop
HashLoop ==
    /\ hpc = "loop"
    /\ read # fileSize
    /\ LET sizeToRead == SizeToRead(fileSize, read) IN
       /\ cursor' = cursor + sizeToRead
       /\ hashed' = UpdateHash(hashed, cursor, sizeToRead)
       /\ read' = read + sizeToRead
       /\ reads' = Append(reads, sizeToRead)
    /\ UNCHANGED <<providerVars, lastCall, keyVars, createVars, concVars, hpc, fileSize,
                   rawHash>>

\* lines 220-222: the loop ended
HashEnd ==
    /\ hpc = "loop"
    /\ read = fileSize
    /\ rawHash' = Sha256(hashed)
    /\ hpc' = "done"
    /\ UNCHANGED <<providerVars, lastCall, keyVars, createVars, concVars, fileSize, read,
                   cursor, reads, hashed>>

\* The caller takes rawHash.
HashReturn ==
    /\ hpc = "done"
    /\ hpc' = "idle"
    /\ UNCHANGED <<providerVars, lastCall, keyVars, createVars, concVars, fileSize, read,
                   cursor, reads, hashed,
                   rawHash>>

----------------------------------------------------------------------------
(* VerifyLicense called by several threads on one provider: the statements
   of ProcessRevokation one at a time *)

Threads == {"t1", "t2"}

IdleLocal == [license |-> "none", containedAnyUrlBefore |-> FALSE, status |-> "none"]

\* The thread's call ends with status.
Returned(t, status) ==
    /\ tpc' = [tpc EXCEPT ![t] = "returned"]
    /\ tlocal' = [tlocal EXCEPT ![t].status = status]

\* lines 58-99: the checks before ProcessRevokation
VerifyLicenseBegin(t, root, license) ==
    /\ dtor = "alive"
    /\ tpc[t] = "idle"
    /\ LET early == EarlyStatus(root, license) IN
       /\ tpc' = [tpc EXCEPT ![t] = IF early # "none" THEN "returned" ELSE "l346"]
       /\ tlocal' = [tlocal EXCEPT ![t] = [license |-> license,
                                           containedAnyUrlBefore |-> FALSE,
                                           status |-> early]]
    /\ UNCHANGED <<providerVars, lastCall, keyVars, hashVars, createVars,
                   syncUpdates, timerStarts>>

\* line 346
ContainedAnyUrlBefore(t) ==
    /\ tpc[t] = "l346"
    /\ tlocal' = [tlocal EXCEPT ![t].containedAnyUrlBefore = ContainsAnyUrl(crlUrls)]
    /\ tpc' = [tpc EXCEPT ![t] = "l347"]
    /\ UNCHANGED <<providerVars, lastCall, keyVars, hashVars, createVars,
                   syncUpdates, timerStarts>>

\* line 347
MergeDistributionPoints(t) ==
    /\ tpc[t] = "l347"
    /\ crlUrls' = UpdateCrlDistributionPoints(crlUrls,
                        Certificate(tlocal[t].license.certificate).dps)
    /\ tpc' = [tpc EXCEPT ![t] = "l350"]
    /\ UNCHANGED <<revocationList, timerState, handlerInFlight, capturedException,
                   cancelled, dtor, dtorTrace, crlServed, fetched, refresh>>
    /\ UNCHANGED <<tlocal, lastCall, keyVars, hashVars, createVars,
                   syncUpdates, timerStarts>>

\* line 350, and the entry into Update() of line 352 when the test holds
FirstUseTest(t) ==
    /\ tpc[t] = "l350"
    /\ IF ~tlocal[t].containedAnyUrlBefore /\ ContainsAnyUrl(crlUrls)
       THEN /\ tpc' = [tpc EXCEPT ![t] = "l352"]
            /\ syncUpdates' = syncUpdates + 1
       ELSE /\ tpc' = [tpc EXCEPT ![t] = "l358"]
            /\ UNCHANGED syncUpdates
    /\ UNCHANGED <<providerVars, tlocal, lastCall, keyVars, hashVars, createVars,
                   timerStarts>>

\* line 352: Update() ends, normally or with an exception that leaves
\* VerifyLicense as lines 135-138 have it
SyncUpdateDone(t, fetch) ==
    /\ tpc[t] = "l352"
    /\ revocationList' = CrlUpdate(crlUrls, revocationList, crlServed, fetch)
    /\ fetched' = IF fetch = "ok" THEN fetched \cup crlUrls ELSE fetched
    /\ IF fetch = "ok"
       THEN /\ tpc' = [tpc EXCEPT ![t] = "l354"]
            /\ UNCHANGED tlocal
       ELSE Returned(t, IF fetch = "cryptopp"
                        THEN ContentProviderCertificateNotVerified
                        ELSE EscapedException)
    /\ UNCHANGED <<crlUrls, timerState, handlerInFlight, capturedException,
                   cancelled, dtor, dtorTrace, crlServed, refresh>>
    /\ UNCHANGED <<lastCall, keyVars, hashVars, createVars, syncUpdates, timerStarts>>

\* line 354
TimerStart(t) ==
    /\ tpc[t] = "l354"
    /\ timerState' = ThreadTimerStart(timerState)
    /\ timerStarts' = timerStarts + 1
    /\ tpc' = [tpc EXCEPT ![t] = "l358"]
    /\ UNCHANGED <<crlUrls, revocationList, handlerInFlight, capturedException,
                   cancelled, dtor, dtorTrace, crlServed, fetched, refresh>>
    /\ UNCHANGED <<tlocal, lastCall, keyVars, hashVars, createVars, syncUpdates>>

\* line 358
RethrowExceptionIfAny(t) ==
    /\ tpc[t] = "l358"
    /\ capturedException' = "none"
    /\ IF capturedException = "none"
       THEN /\ tpc' = [tpc EXCEPT ![t] = "l360"]
            /\ UNCHANGED tlocal
       ELSE Returned(t, IF capturedException = "cryptopp"
                        THEN ContentProviderCertificateNotVerified
                        ELSE EscapedException)
    /\ UNCHANGED <<crlUrls, revocationList, timerState, handlerInFlight,
                   cancelled, dtor, dtorTrace, crlServed, fetched, refresh>>
    /\ UNCHANGED <<lastCall, keyVars, hashVars, createVars, syncUpdates, timerStarts>>

\* lines 360-364, then lines 102-133 of VerifyLicense
LookupAndLateChecks(t) ==
    /\ tpc[t] = "l360"
    /\ LET license == tlocal[t].license
           cert == Certificate(license.certificate)
       IN  Returned(t, IF SerialNumberRevoked(revocationList, cert.serial)
                       THEN CertificateRevoked
                       ELSE LateStatus(license, cert))
    /\ UNCHANGED <<providerVars, lastCall, keyVars, hashVars, createVars,
                   syncUpdates, timerStarts>>

\* The caller takes the status, or the exception, of its call.
ThreadTakeResult(t) ==
    /\ tpc[t] = "returned"
    /\ tpc' = [tpc EXCEPT ![t] = "idle"]
    /\ tlocal' = [tlocal EXCEPT ![t] = IdleLocal]
    /\ UNCHANGED <<providerVars, lastCall, keyVars, hashVars, createVars,
                   syncUpdates, timerStarts>>

----------------------------------------------------------------------------
(* LcpServiceCreator::CreateLcpService *)

\* The root certificate strings a host passes: none, one that is not a
\* certificate, the root, and a certificate that is not a root.
RootCertificates == {"", "garbage", "R", "U"}

\* ILcpService ** lcpService: nullptr, or the address of the caller's pointer
Handles == {"nullptr", "lcpService"}

NoService == [id |-> 0]

\* new LcpService(rootCertificate, ...): the constructor keeps the string
LcpService(id, rootCertificate) == [id |-> id, rootCertificate |-> rootCertificate]

\* CreateLcpService with the root certificate checked at creation
CreateLcpServiceValidating(rootCertificate, handle) ==
    IF handle = "nullptr"
    THEN [thrown |-> "invalid_argument", status |-> "none", constructs |-> FALSE]
    ELSE IF rootCertificate = ""
    THEN [thrown |-> "none", status |-> NoRootCertificate, constructs |-> FALSE]
    ELSE [thrown |-> "none", status |-> Success, constructs |-> TRUE]

\* lines 33-39: how the call ends and whether it constructs a service
CreateLcpServiceOutcome(rootCertificate, handle) ==
    IF handle = "nullptr"
    THEN [thrown |-> "invalid_argument", status |-> "none", constructs |-> FALSE]
    ELSE [thrown |-> "none", status |-> Success, constructs |-> TRUE]

CreateLcpService(rootCertificate, handle) ==
    /\ lastCall = NoCall
    /\ LET outcome == CreateLcpServiceOutcome(rootCertificate, handle) IN
       /\ outcome.constructs => services < MaxServices
       /\ IF outcome.constructs
          THEN /\ services' = services + 1
               /\ lcpService' = LcpService(services + 1, rootCertificate)
          ELSE UNCHANGED <<services, lcpService>>
       /\ lastCall' = [op |-> "CreateLcpService", rootCertificate |-> rootCertificate,
                       handle |-> handle, thrown |-> outcome.thrown,
                       status |-> outcome.status, servicesBefore |-> services,
                       lcpServiceBefore |-> lcpService]
    /\ UNCHANGED <<providerVars, keyVars, hashVars, concVars>>

----------------------------------------------------------------------------
(* The calls made by the clients of the model *)

DateStrings == {<<>>} \cup {<<t>> : t \in Times}

\* Licenses that exercise the checks before the validity window.
CheckCalls ==
    {<<root, License(profile, certificate, over, <<>>, <<2>>)>> :
        root \in {"", "garbage", "R"}, profile \in {"basic", "unknown"},
        certificate \in {"garbage", "U", "A", "B", "N"}, over \in {"doc", "tampered"}}

\* Licenses that exercise the validity window.
WindowCalls ==
    {<<"R", License("basic", certificate, "doc", updated, issued)>> :
        certificate \in ProviderCertNames, updated \in DateStrings,
        issued \in DateStrings \ {<<>>}}

Calls == CheckCalls \cup WindowCalls

\* Well-formed licenses of A, B and N, a license of an unknown profile and
\* one whose certificate the root did not issue.
LifecycleCalls ==
    {<<"R", License("basic", certificate, "doc", <<>>, <<2>>)>> :
        certificate \in {"A", "B", "N", "U"}}
    \cup {<<"R", License("unknown", "A", "doc", <<>>, <<2>>)>>}

Init ==
    /\ crlUrls = {}
    /\ revocationList = [u \in Urls |-> {}]
    /\ timerState = "Idle"
    /\ handlerInFlight = FALSE
    /\ capturedException = "none"
    /\ cancelled = FALSE
    /\ dtor = "alive"
    /\ dtorTrace = <<>>
    /\ crlServed = [u \in Urls |-> {}]
    /\ fetched = {}
    /\ refresh = "fresh"
    /\ lastCall = NoCall
    /\ userKey = "unset"
    /\ contentKey = "unset"
    /\ hpc = "idle"
    /\ fileSize = 0
    /\ read = 0
    /\ cursor = 0
    /\ reads = <<>>
    /\ hashed = <<>>
    /\ rawHash = <<>>
    /\ lcpService = NoService
    /\ services = 0
    /\ tpc = [t \in Threads |-> "idle"]
    /\ tlocal = [t \in Threads |-> IdleLocal]
    /\ syncUpdates = 0
    /\ timerStarts = 0

\* The provider from construction to destruction, with its timer thread and
\* the CRL servers, under the calls of LifecycleCalls.
Next ==
    \/ \E c \in LifecycleCalls, fetch \in UpdateOutcomes : VerifyLicense(c[1], c[2], fetch)
    \/ TakeResult
    \/ TimerFire
    \/ \E outcome \in UpdateOutcomes : TimerHandlerDone(outcome)
    \/ \E u \in Urls : \E s \in SerialsAt(u) : PublishCrl(u, s)
    \/ DtorCancel
    \/ DtorStop
    \/ DtorJoin

Spec == Init /\ [][Next]_vars

\* A live provider under every call of Calls.
NextVerify ==
    \/ \E c \in Calls, fetch \in UpdateOutcomes : VerifyLicense(c[1], c[2], fetch)
    \/ TakeResult
    \/ TimerFire
    \/ \E outcome \in UpdateOutcomes : TimerHandlerDone(outcome)
    \/ \E u \in Urls : \E s \in SerialsAt(u) : PublishCrl(u, s)

SpecVerify == Init /\ [][NextVerify]_vars

KeyLicenses ==
    [profile : {"basic", "unknown"}, id : {"urn:uuid:123"},
     userKeyCheck : Ciphertexts, contentKey : {[k \in Keys |-> "ck"]}]
    \cup [profile : {"basic", "unknown"}, id : {"urn:uuid:123"},
          userKeyCheck : {[k \in Keys |-> "urn:uuid:123"]}, contentKey : Ciphertexts]

\* The key operations of a live provider.
NextKeys ==
    \/ \E p \in Passphrases, l \in KeyLicenses : DecryptUserKey(p, l)
    \/ \E k \in Keys, l \in KeyLicenses : DecryptContentKey(k, l)
    \/ TakeResult

SpecKeys == Init /\ [][NextKeys]_vars

Remainders == {0, 1, bufferSize - 1}

StreamSizes == {k * bufferSize + r : k \in 0..MaxChunks, r \in Remainders}

\* CalculateFileHash on streams of the sizes of StreamSizes.  The loop is
\* straight-line code of the calling thread: a turn that can be taken is
\* taken.
NextHash ==
    \/ \E size \in StreamSizes : HashBegin(size)
    \/ HashLoop
    \/ HashEnd
    \/ HashReturn

SpecHash == Init /\ [][NextHash]_vars /\ WF_vars(HashLoop) /\ WF_vars(HashEnd)

\* A host that creates services, with and without a place to put them.
NextCreate ==
    \/ \E r \in RootCertificates, h \in Handles : CreateLcpService(r, h)
    \/ TakeResult

SpecCreate == Init /\ [][NextCreate]_vars

\* Two threads that call VerifyLicense on one live provider, and its timer
\* thread.
NextConc ==
    \/ \E t \in Threads, c \in LifecycleCalls : VerifyLicenseBegin(t, c[1], c[2])
    \/ \E t \in Threads : ContainedAnyUrlBefore(t)
    \/ \E t \in Threads : MergeDistributionPoints(t)
    \/ \E t \in Threads : FirstUseTest(t)
    \/ \E t \in Threads, fetch \in UpdateOutcomes : SyncUpdateDone(t, fetch)
    \/ \E t \in Threads : TimerStart(t)
    \/ \E t \in Threads : RethrowExceptionIfAny(t)
    \/ \E t \in Threads : LookupAndLateChecks(t)
    \/ \E t \in Threads : ThreadTakeResult(t)
    \/ TimerFire
    \/ \E outcome \in UpdateOutcomes : TimerHandlerDone(outcome)

SpecConc == Init /\ [][NextConc]_vars

----------------------------------------------------------------------------
(* Properties of VerifyLicense *)

IsVerify(call) == call.op = "VerifyLicense"

\* What a call was given, read off its arguments alone.
ProfileKnown(call) == call.license.profile = "basic"

RootGiven(call) == call.root # ""

RootParses(call) == call.root \in DOMAIN CertTable

ProviderParses(call) == call.license.certificate \in DOMAIN CertTable

ProviderOf(call) == CertTable[call.license.certificate]

ChainVerifies(call) == ProviderOf(call).issuer = CertTable[call.root].subject

SignatureGood(call) ==
    /\ call.license.signature.signer = ProviderOf(call).serial
    /\ call.license.signature.over = call.license.canonicalContent

LastUpdatedOf(call) ==
    IF call.license.updated = <<>> THEN call.license.issued[1] ELSE call.license.updated[1]

InWindow(call) ==
    /\ ProviderOf(call).notBefore <= LastUpdatedOf(call)
    /\ LastUpdatedOf(call) <= ProviderOf(call).notAfter

\* The call passed the checks before the revocation step.
ReachedRevocation(call) ==
    /\ IsVerify(call)
    /\ ProfileKnown(call) /\ RootGiven(call) /\ RootParses(call)
    /\ ProviderParses(call) /\ ChainVerifies(call)

\* The call performed the lookup in the revocation list.
ReachedLookup(call) ==
    /\ ReachedRevocation(call)
    /\ call.trace[Len(call.trace)] = "SerialNumberRevoked"

\* The status that the first failing check of the order 1..8 gives.
FirstFailingCheck(call) ==
    IF ~ProfileKnown(call) THEN EncryptionProfileNotFound
    ELSE IF ~RootGiven(call) THEN NoRootCertificate
    ELSE IF ~RootParses(call) THEN RootCertificateNotValid
    ELSE IF ~ProviderParses(call) THEN ContentProviderCertificateNotValid
    ELSE IF ~ChainVerifies(call) THEN ContentProviderCertificateNotVerified
    ELSE IF call.inList THEN CertificateRevoked
    ELSE IF ~SignatureGood(call) THEN LicenseSignatureNotValid
    ELSE IF LastUpdatedOf(call) < ProviderOf(call).notBefore THEN CertificateNotStarted
    ELSE IF LastUpdatedOf(call) > ProviderOf(call).notAfter THEN CertificateExpired
    ELSE Success

\* C1: VerifyLicense returns the status of the first check that fails, in
\* the order profile, empty root, root parse, provider parse, chain,
\* revocation, signature, validity window, and Success iff no check fails.
C1_FirstFailingCheckReported ==
    IsVerify(lastCall) => lastCall.status = FirstFailingCheck(lastCall)

\* The call passed every check before the validity window.
ReachedWindow(call) ==
    /\ ReachedLookup(call)
    /\ ~call.inList
    /\ SignatureGood(call)

\* C2 as stated: past the earlier checks, the status is NotStarted iff
\* lastUpdated < notBefore, Expired iff lastUpdated > notAfter, and Success
\* iff notBefore <= lastUpdated <= notAfter.
C2_WindowAsStated ==
    ReachedWindow(lastCall) =>
        /\ lastCall.status = CertificateNotStarted
             <=> LastUpdatedOf(lastCall) < ProviderOf(lastCall).notBefore
        /\ lastCall.status = CertificateExpired
             <=> LastUpdatedOf(lastCall) > ProviderOf(lastCall).notAfter
        /\ lastCall.status = Success <=> InWindow(lastCall)

\* C2, amended: past the earlier checks, lastUpdated is Updated() when that
\* is not empty and Issued() otherwise; the status is NotStarted iff
\* lastUpdated < notBefore, Expired iff lastUpdated > notAfter and
\* lastUpdated >= notBefore, and Success iff notBefore <= lastUpdated <=
\* notAfter, both ends included.
C2_ValidityWindow ==
    ReachedWindow(lastCall) =>
        /\ lastCall.status = CertificateNotStarted
             <=> LastUpdatedOf(lastCall) < ProviderOf(lastCall).notBefore
        /\ lastCall.status = CertificateExpired
             <=> /\ LastUpdatedOf(lastCall) > ProviderOf(lastCall).notAfter
                 /\ LastUpdatedOf(lastCall) >= ProviderOf(lastCall).notBefore
        /\ lastCall.status = Success <=> InWindow(lastCall)

\* A license whose Updated() differs from its Issued() and equals the
\* certificate's notAfter, later than its notBefore, was found valid.
C2_Witness ==
    /\ ReachedWindow(lastCall)
    /\ lastCall.license.updated # <<>>
    /\ lastCall.license.updated # lastCall.license.issued
    /\ LastUpdatedOf(lastCall) = ProviderOf(lastCall).notAfter
    /\ LastUpdatedOf(lastCall) > ProviderOf(lastCall).notBefore
    /\ lastCall.license.issued[1] < ProviderOf(lastCall).notBefore
    /\ lastCall.status = Success

----------------------------------------------------------------------------
(* Properties of the revocation step and of the destructor *)

\* Every check of the call other than revocation is good.
WellFormed(call) ==
    /\ ReachedRevocation(call)
    /\ SignatureGood(call)
    /\ InWindow(call)

Before(trace, a, b) ==
    \E i, j \in 1..Len(trace) : i < j /\ trace[i] = a /\ trace[j] = b

Calls_(trace, a) == \E i \in 1..Len(trace) : trace[i] = a

\* C3: once the serial of C is in the CRL served at a distribution point of
\* C and a refresh of the timer that began afterwards has completed, a
\* VerifyLicense for a license of C with known profile, valid root and
\* verified chain returns CertificateRevoked.
C3_RevocationEnforcedAfterRefresh ==
    ( /\ ReachedRevocation(lastCall)
      /\ lastCall.listed
      /\ lastCall.refreshAtCall = "fresh" )
    => lastCall.status = CertificateRevoked

\* C4: with a failure of a background refresh captured, a VerifyLicense for a
\* license that is good in every check and whose serial is not in the
\* revocation list returns Success, never an exception.
C4_BackgroundFailureDoesNotFailCall ==
    ( /\ WellFormed(lastCall)
      /\ lastCall.capturedBefore # "none"
      /\ ~lastCall.inList )
    => lastCall.status = Success

\* C6: the destructor calls Cancel() and then Stop(), timer started or not;
\* it does not return while a handler is in flight; after it returned no
\* handler run begins and the revocation list is not written.
C6_Destruction ==
    /\ [](dtor = "destroyed" => dtorTrace = <<"Cancel", "Stop">> /\ ~handlerInFlight)
    /\ [][dtor = "destroyed" => ~handlerInFlight' /\ revocationList' = revocationList]_vars

\* The provider was destroyed after its timer had been started and a CRL
\* that lists a serial had been merged.
C6_Witness ==
    /\ dtor = "destroyed"
    /\ crlUrls # {}
    /\ timerState = "Cancelled"
    /\ fetched # {}
    /\ \E u \in Urls : crlServed[u] # revocationList[u]

\* C9: a call performs the synchronous Update followed by Start(), both
\* before the lookup, exactly when the set of urls goes from empty to
\* non-empty in it; any other call performs neither.
C9_FirstUseOnly ==
    IsVerify(lastCall) =>
        IF lastCall.urlsBefore = {} /\ lastCall.urlsAfter # {}
        THEN /\ Before(lastCall.trace, "Update", "Start")
             /\ Calls_(lastCall.trace, "SerialNumberRevoked")
                  => Before(lastCall.trace, "Start", "SerialNumberRevoked")
        ELSE /\ ~Calls_(lastCall.trace, "Update")
             /\ ~Calls_(lastCall.trace, "Start")

\* C10: when a call reaches the lookup for a certificate with distribution
\* points, a fetch of each of them has completed, in this call or earlier.
C10_FetchedBeforeLookup ==
    ReachedLookup(lastCall) =>
        ProviderOf(lastCall).dps \subseteq lastCall.fetchedAtLookup

\* C11: a failure captured on the timer thread is surfaced once.  The first
\* call that reaches the revocation step after the capture rethrows it
\* before the lookup, so it returns neither CertificateRevoked nor Success,
\* and leaves the slot empty; a call that finds the slot empty and gets past
\* RethrowExceptionIfAny performs the lookup; the slot is filled only by the
\* end of a handler run on the timer thread.
C11_SurfacedOnce ==
    /\ []( ( /\ ReachedRevocation(lastCall)
             /\ lastCall.capturedBefore # "none" )
           => /\ lastCall.status
                   = ( IF lastCall.capturedBefore = "cryptopp"
                       THEN ContentProviderCertificateNotVerified
                       ELSE EscapedException )
              /\ lastCall.status \notin {CertificateRevoked, Success}
              /\ Calls_(lastCall.trace, "RethrowExceptionIfAny")
              /\ ~Calls_(lastCall.trace, "SerialNumberRevoked")
              /\ capturedException = "none" )
    /\ []( ( /\ ReachedRevocation(lastCall)
             /\ lastCall.capturedBefore = "none"
             /\ Calls_(lastCall.trace, "RethrowExceptionIfAny") )
           => ReachedLookup(lastCall) )
    /\ [][ (capturedException = "none" /\ capturedException' # "none")
            => (handlerInFlight /\ ~handlerInFlight') ]_vars

\* A call for a good license of a certificate that is not revoked ended in
\* the failure that a handler run had captured, and emptied the slot.
C11_Witness ==
    /\ WellFormed(lastCall)
    /\ lastCall.capturedBefore = "other"
    /\ ~lastCall.inList
    /\ lastCall.status = EscapedException
    /\ capturedException = "none"

EarlyStatuses ==
    {EncryptionProfileNotFound, NoRootCertificate, RootCertificateNotValid,
     ContentProviderCertificateNotValid, ContentProviderCertificateNotVerified}

\* C13: a VerifyLicense that returns before the revocation step, on an
\* unknown profile, an empty or unparsable root, an unparsable provider
\* certificate or a chain that does not verify, returns one of the five
\* statuses of these checks and leaves the url set, the revocation list and
\* the timer as they were; the distribution points of its certificate are
\* neither merged nor fetched.
C13_EarlyReturnFrame ==
    [][ (IsVerify(lastCall') /\ ~ReachedRevocation(lastCall'))
        => /\ lastCall'.status \in EarlyStatuses
           /\ lastCall'.trace = <<>>
           /\ UNCHANGED <<crlUrls, revocationList, timerState, capturedException,
                          fetched>> ]_vars

\* A fresh provider was given a license whose certificate names a
\* distribution point and was not issued by the root: it knows no url and
\* its timer is not started.
C13_Witness ==
    /\ IsVerify(lastCall)
    /\ lastCall.root = "R"
    /\ lastCall.license.certificate = "U"
    /\ ProviderOf(lastCall).dps # {}
    /\ lastCall.status = ContentProviderCertificateNotVerified
    /\ crlUrls = {}
    /\ fetched = {}
    /\ timerState = "Idle"

\* C14: between calls on a live provider, whenever the CRL updater holds at
\* least one url the timer has been started, however the calls ended.
C14_TimerStartedWhenUrlsKnown ==
    (dtor = "alive" /\ crlUrls # {}) => timerState = "Running"

----------------------------------------------------------------------------
(* Properties of DecryptUserKey, DecryptContentKey and CalculateFileHash *)

\* What license.userKeyCheck decrypts to under the hash of the passphrase.
CheckPlaintext(call) == call.license.userKeyCheck[UserKeyHash(call.passphrase)]

\* C5: for a license of a known profile DecryptUserKey returns Success iff
\* decrypting userKeyCheck under hash(passphrase) completes and yields the
\* license id; every other outcome, a different value or a cipher error,
\* returns UserPassphraseNotValid.
C5_UserKeyCheck ==
    (lastCall.op = "DecryptUserKey" /\ lastCall.license.profile = "basic") =>
        /\ lastCall.status = Success <=> CheckPlaintext(lastCall) = lastCall.license.id
        /\ lastCall.status # Success => lastCall.status = UserPassphraseNotValid

\* A check token that does not decrypt under the hash of the passphrase, but
\* holds the license id under another key, was answered with
\* UserPassphraseNotValid.
C5_Witness ==
    /\ lastCall.op = "DecryptUserKey"
    /\ lastCall.license.profile = "basic"
    /\ CheckPlaintext(lastCall) = CipherError
    /\ \E k \in Keys : lastCall.license.userKeyCheck[k] = lastCall.license.id
    /\ lastCall.status = UserPassphraseNotValid

\* C7: for a license of a known profile DecryptContentKey returns Success
\* with contentKey the plaintext of license.contentKey under userKey when the
\* cipher completes, and LicenseEncrypted when it fails; on every status
\* other than Success the caller's contentKey keeps the value it had.
C7_ContentKey ==
    lastCall.op = "DecryptContentKey" =>
        /\ lastCall.license.profile = "basic" =>
             IF lastCall.license.contentKey[lastCall.key] # CipherError
             THEN /\ lastCall.status = Success
                  /\ contentKey = lastCall.license.contentKey[lastCall.key]
             ELSE lastCall.status = LicenseEncrypted
        /\ lastCall.license.profile # "basic" => lastCall.status = EncryptionProfileNotFound
        /\ lastCall.status # Success => contentKey = lastCall.contentKeyBefore

\* A failed decryption after a successful one left the earlier key in place.
C7_Witness ==
    /\ lastCall.op = "DecryptContentKey"
    /\ lastCall.status = LicenseEncrypted
    /\ lastCall.contentKeyBefore = "ck"
    /\ contentKey = "ck"

\* C15: DecryptUserKey writes userKey before the check.  For a license of a
\* known profile userKey is hash(passphrase) after the call, whether the
\* status is Success or UserPassphraseNotValid, from a mismatch or from a
\* cipher failure; userKey keeps the value it had only when the call
\* returns EncryptionProfileNotFound.
C15_UserKeyWritten ==
    lastCall.op = "DecryptUserKey" =>
        /\ lastCall.license.profile = "basic" =>
              /\ userKey = UserKeyHash(lastCall.passphrase)
              /\ lastCall.status \in {Success, UserPassphraseNotValid}
        /\ lastCall.license.profile # "basic" =>
              /\ lastCall.status = EncryptionProfileNotFound
              /\ userKey = lastCall.userKeyBefore
        /\ (userKey = lastCall.userKeyBefore
              /\ lastCall.userKeyBefore # UserKeyHash(lastCall.passphrase))
             => lastCall.status = EncryptionProfileNotFound

\* A call whose check ended in a cipher failure replaced the key that an
\* earlier call had left by the hash of its own passphrase.
C15_Witness ==
    /\ lastCall.op = "DecryptUserKey"
    /\ lastCall.license.profile = "basic"
    /\ CheckPlaintext(lastCall) = CipherError
    /\ lastCall.status = UserPassphraseNotValid
    /\ lastCall.userKeyBefore \notin {"unset", UserKeyHash(lastCall.passphrase)}
    /\ userKey = UserKeyHash(lastCall.passphrase)

RECURSIVE Sum(_)
Sum(sizes) == IF sizes = <<>> THEN 0 ELSE sizes[1] + Sum(Tail(sizes))

Min(a, b) == IF a < b THEN a ELSE b

\* The bytes of a whole stream of size bytes, fed in one piece.
WholeStream(size) == IF size = 0 THEN <<>> ELSE << <<0, size>> >>

ReadsAsClaimed ==
    \A i \in 1..Len(reads) :
        /\ reads[i] >= 1
        /\ reads[i] <= 1048576
        /\ reads[i] = Min(1048576, fileSize - Sum(SubSeq(reads, 1, i - 1)))

\* C8: CalculateFileHash terminates for every stream size; each read asks
\* for min(1 MiB, remaining) bytes, never 0 and never more than 1 MiB; the
\* sizes sum to the stream's size; the result is the hash of the whole
\* stream, however the size divides into chunks.
C8_FileHash ==
    /\ [](hpc # "idle" => ReadsAsClaimed)
    /\ [](hpc = "done" => /\ Sum(reads) = fileSize
                          /\ rawHash = Sha256(WholeStream(fileSize)))
    /\ (hpc = "loop") ~> (hpc = "done")

\* A stream of exactly two buffers was hashed in two reads.
C8_Witness ==
    /\ hpc = "done"
    /\ fileSize = 2 * 1048576
    /\ reads = <<1048576, 1048576>>

----------------------------------------------------------------------------
(* Properties of concurrent calls *)

\* C12: however two or more concurrent VerifyLicense calls on one provider
\* interleave, the provider makes at most one synchronous Update and at most
\* one Start() of the timer in its life, and no caller thread is inside
\* Update while the timer thread is.
C12_SingleFirstUse ==
    /\ syncUpdates <= 1
    /\ timerStarts <= 1
    /\ ~(handlerInFlight /\ \E t \in Threads : tpc[t] = "l352")

----------------------------------------------------------------------------
(* Properties of CreateLcpService *)

\* C16: CreateLcpService given no output handle throws invalid_argument,
\* returns no status and constructs no service; given a handle it stores a
\* newly constructed service there and returns Success for every root
\* certificate string, the empty and the malformed ones included.
C16_CreateLcpService ==
    lastCall.op = "CreateLcpService" =>
        IF lastCall.handle = "nullptr"
        THEN /\ lastCall.thrown = "invalid_argument"
             /\ lastCall.status = "none"
             /\ services = lastCall.servicesBefore
             /\ lcpService = lastCall.lcpServiceBefore
        ELSE /\ lastCall.thrown = "none"
             /\ lastCall.status = Success
             /\ services = lastCall.servicesBefore + 1
             /\ lcpService = LcpService(services, lastCall.rootCertificate)
             /\ lcpService.id > lastCall.lcpServiceBefore.id

\* A service was created with the empty string as its root certificate,
\* replacing the one that an earlier call had stored.
C16_Witness ==
    /\ lastCall.op = "CreateLcpService"
    /\ lastCall.handle = "lcpService"
    /\ lastCall.rootCertificate = ""
    /\ lastCall.status = Success
    /\ lastCall.lcpServiceBefore # NoService
    /\ lcpService.rootCertificate = ""

====
